---- MODULE Spec2Model ----
(***************************************************************************)
(* Model of import_plays_to_sqlite.py: a CSV file is read into a           *)
(* DataFrame, text columns that are fully numeric are coerced to numeric   *)
(* dtypes, the frame is written to one SQLite table (replace policy) and   *)
(* the table's schema and row count are read back.                         *)
(*                                                                         *)
(* A cell text is a sequence of one-character strings, so that parsing is  *)
(* computed from the characters.  A number is n / 10^d with d minimal.     *)
(***************************************************************************)
EXTENDS Integers, Sequences, FiniteSets, TLC

VARIABLES pc, csv_file, db_file, table_name, src_df, df, report, run, db_at_start

vars == <<pc, csv_file, db_file, table_name, src_df, df, report, run, db_at_start>>

(***************************************************************************)
(* Bounds                                                                  *)
(***************************************************************************)
\* rows of a CSV file
MaxRows == 2
\* cells of the text column handed directly to coerce_numeric_columns
MaxCells == 3
\* invocations of the tool, one after the other
MaxRuns == 2

(***************************************************************************)
(* Cells                                                                   *)
(***************************************************************************)
NA == [k |-> "na", s |-> <<>>, n |-> 0, d |-> 0]
Str(t) == [k |-> "str", s |-> t, n |-> 0, d |-> 0]
Bool(b) == [k |-> "bool", s |-> <<>>, n |-> IF b THEN 1 ELSE 0, d |-> 0]

RECURSIVE Norm(_, _)
Norm(n, d) == IF d > 0 /\ n % 10 = 0 THEN Norm(n \div 10, d - 1)
              ELSE [k |-> "num", s |-> <<>>, n |-> n, d |-> d]

RECURSIVE Pow10(_)
Pow10(e) == IF e = 0 THEN 1 ELSE 10 * Pow10(e - 1)

notna(c) == c.k # "na"

(***************************************************************************)
(* Numeric literal syntax accepted by the parser behind pd.to_numeric and  *)
(* pd.read_csv: [sign] digits [. digits] [e [sign] digits], with at least  *)
(* one digit in the mantissa.                                              *)
(***************************************************************************)
Digits == {"0", "1", "2", "3", "4", "5", "6", "7", "8", "9"}

DigitVal(c) == CASE c = "0" -> 0 [] c = "1" -> 1 [] c = "2" -> 2 [] c = "3" -> 3
                 [] c = "4" -> 4 [] c = "5" -> 5 [] c = "6" -> 6 [] c = "7" -> 7
                 [] c = "8" -> 8 [] c = "9" -> 9

AllDigits(t) == \A i \in 1..Len(t) : t[i] \in Digits

RECURSIVE DigitsVal(_)
DigitsVal(t) == IF t = <<>> THEN 0
                ELSE 10 * DigitsVal(SubSeq(t, 1, Len(t) - 1)) + DigitVal(t[Len(t)])

IndexOf(t, chars) ==
    IF \E i \in 1..Len(t) : t[i] \in chars
    THEN CHOOSE i \in 1..Len(t) : t[i] \in chars /\ \A j \in 1..(i - 1) : t[j] \notin chars
    ELSE 0

\* [ok, isint, val]: whether t is a numeric literal, whether it is written as
\* an integer (no point, no exponent), and its value
ParseNumber(t) ==
    LET signed == Len(t) > 0 /\ t[1] \in {"+", "-"}
        sgn    == IF signed /\ t[1] = "-" THEN -1 ELSE 1
        body   == IF signed THEN Tail(t) ELSE t
        e      == IndexOf(body, {"e", "E"})
        mant   == IF e = 0 THEN body ELSE SubSeq(body, 1, e - 1)
        expo   == IF e = 0 THEN <<>> ELSE SubSeq(body, e + 1, Len(body))
        p      == IndexOf(mant, {"."})
        ip     == IF p = 0 THEN mant ELSE SubSeq(mant, 1, p - 1)
        fp     == IF p = 0 THEN <<>> ELSE SubSeq(mant, p + 1, Len(mant))
        xsigned == Len(expo) > 0 /\ expo[1] \in {"+", "-"}
        xsgn   == IF xsigned /\ expo[1] = "-" THEN -1 ELSE 1
        xd     == IF xsigned THEN Tail(expo) ELSE expo
        ok     == /\ AllDigits(ip) /\ AllDigits(fp) /\ Len(ip) + Len(fp) > 0
                  /\ (e # 0 => (Len(xd) > 0 /\ AllDigits(xd)))
        n      == sgn * DigitsVal(ip \o fp)
        dd     == Len(fp) - xsgn * DigitsVal(xd)
    IN  IF ~ok THEN [ok |-> FALSE, isint |-> FALSE, val |-> NA]
        ELSE [ok |-> TRUE, isint |-> (p = 0 /\ e = 0),
              val |-> IF dd < 0 THEN Norm(n * Pow10(-dd), 0) ELSE Norm(n, dd)]

(***************************************************************************)
(* Columns and frames.  A column is [name, dtype, vals]; a frame is the    *)
(* sequence of its columns, in order.                                      *)
(***************************************************************************)
Column(name, dtype, vals) == [name |-> name, dtype |-> dtype, vals |-> vals]

NoFrame == <<Column("", "none", <<>>)>>

nrows(frame) == IF frame = <<>> THEN 0 ELSE Len(frame[1].vals)

columns(frame) == [j \in 1..Len(frame) |-> frame[j].name]

\* len(str(cell)) of s.astype(str): a missing cell prints as "nan"
astype_str_len(c) ==
    CASE c.k = "na"   -> Len(<<"n", "a", "n">>)
      [] c.k = "str"  -> Len(c.s)
      [] c.k = "bool" -> IF c.n = 1 THEN Len(<<"T", "r", "u", "e">>)
                         ELSE Len(<<"F", "a", "l", "s", "e">>)
      [] OTHER        -> 1

\* the mask of line 21 without its length test
non_null_keeps_empty(c) == notna(c)

\* line 21: s.notna() & (s.astype(str).str.len() > 0), for one cell
non_null(c) == notna(c) /\ astype_str_len(c) > 0

\* pd.to_numeric(..., errors="coerce") on one cell: what does not parse, and
\* the empty string, become NaN
to_numeric_cell(c) ==
    CASE c.k = "str"  -> IF ParseNumber(c.s).ok THEN ParseNumber(c.s).val ELSE NA
      [] c.k = "bool" -> Norm(c.n, 0)
      [] OTHER        -> c

\* whether the converted cell makes the result a float array
is_float_cell(c) ==
    CASE c.k = "na"   -> TRUE
      [] c.k = "str"  -> ~(ParseNumber(c.s).ok /\ ParseNumber(c.s).isint)
      [] c.k = "bool" -> FALSE
      [] OTHER        -> c.d > 0

\* line 23: pd.to_numeric(s, errors="coerce") on a whole column
to_numeric(vals) ==
    LET out == [i \in 1..Len(vals) |-> to_numeric_cell(vals[i])]
        dt  == IF \E i \in 1..Len(vals) : is_float_cell(vals[i]) THEN "float64"
               ELSE IF Len(vals) > 0 /\ \A i \in 1..Len(vals) : vals[i].k = "bool"
                    THEN "bool"
               ELSE "int64"
    IN  [dtype |-> dt, vals |-> out]

\* line 25 with any() in place of all()
accept_conversion_any(vals, converted) ==
    \E i \in 1..Len(vals) : non_null(vals[i]) /\ notna(converted[i])

\* line 25: converted[non_null].notna().all()
accept_conversion(vals, converted) ==
    \A i \in 1..Len(vals) : non_null(vals[i]) => notna(converted[i])

\* line 20: is_object_dtype(s) or is_string_dtype(s)
is_text_dtype(dtype) == dtype \in {"object", "string"}

\* lines 19-26 converting cell by cell: what parses is replaced, the rest stays
coerce_column_partial(col) ==
    IF is_text_dtype(col.dtype)
    THEN Column(col.name, col.dtype,
                [i \in 1..Len(col.vals) |->
                    IF notna(to_numeric_cell(col.vals[i])) THEN to_numeric_cell(col.vals[i])
                    ELSE col.vals[i]])
    ELSE col

\* lines 19-26: one iteration of the loop over the columns
coerce_column(col) ==
    IF /\ is_text_dtype(col.dtype)
       /\ \E i \in 1..Len(col.vals) : non_null(col.vals[i])
       /\ accept_conversion(col.vals, to_numeric(col.vals).vals)
    THEN Column(col.name, to_numeric(col.vals).dtype, to_numeric(col.vals).vals)
    ELSE col

\* line 29: DataFrame.convert_dtypes() on one column: the nullable dtype that
\* holds the column's values; the values stay
convert_dtypes_column(col) ==
    LET present == {i \in 1..Len(col.vals) : notna(col.vals[i])}
        dt == CASE col.dtype = "int64" -> "Int64"
                [] col.dtype = "float64" ->
                     IF \A i \in present : col.vals[i].d = 0 THEN "Int64" ELSE "Float64"
                [] col.dtype = "bool" -> "boolean"
                [] col.dtype = "object" ->
                     IF Len(col.vals) = 0 THEN "object"
                     ELSE IF present = {} THEN "Int64"
                     ELSE IF \A i \in present : col.vals[i].k = "str" THEN "string"
                     ELSE IF \A i \in present : col.vals[i].k = "bool" THEN "boolean"
                     ELSE "object"
                [] OTHER -> col.dtype
    IN  Column(col.name, dt, col.vals)

\* lines 10-32
coerce_numeric_columns(frame) ==
    [j \in 1..Len(frame) |-> convert_dtypes_column(coerce_column(frame[j]))]

is_numeric_dtype(dtype) == dtype \in {"int64", "float64", "Int64", "Float64"}

(***************************************************************************)
(* The CSV file and pd.read_csv (line 37)                                  *)
(***************************************************************************)
CsvFile(header, rows) == [exists |-> TRUE, header |-> header, rows |-> rows]

NoCsv == [exists |-> FALSE, header |-> <<>>, rows |-> <<>>]

\* fields read_csv takes for missing (its default NA strings, in part)
IsNaText(t) == t \in {<<>>, <<"N", "A">>}

IsTrueText(t) == t \in {<<"T", "r", "u", "e">>, <<"T", "R", "U", "E">>, <<"t", "r", "u", "e">>}

IsFalseText(t) == t \in {<<"F", "a", "l", "s", "e">>, <<"F", "A", "L", "S", "E">>,
                         <<"f", "a", "l", "s", "e">>}

\* read_csv's inference for one column: int64, then float64, then bool, then
\* object; a bool column with missing fields is an object column
read_csv_column(name, texts) ==
    LET idx     == 1..Len(texts)
        present == {i \in idx : ~IsNaText(texts[i])}
        allnum  == \A i \in present : ParseNumber(texts[i]).ok
        allint  == \A i \in present : ParseNumber(texts[i]).isint
        allbool == \A i \in present : IsTrueText(texts[i]) \/ IsFalseText(texts[i])
    IN  IF Len(texts) = 0 THEN Column(name, "object", <<>>)
        ELSE IF allnum
        THEN Column(name, IF present = idx /\ allint THEN "int64" ELSE "float64",
                    [i \in idx |-> IF i \in present THEN ParseNumber(texts[i]).val ELSE NA])
        ELSE IF allbool
        THEN Column(name, IF present = idx THEN "bool" ELSE "object",
                    [i \in idx |-> IF i \in present THEN Bool(IsTrueText(texts[i])) ELSE NA])
        ELSE Column(name, "object",
                    [i \in idx |-> IF i \in present THEN Str(texts[i]) ELSE NA])

read_csv(file) ==
    [j \in 1..Len(file.header) |->
        read_csv_column(file.header[j], [i \in 1..Len(file.rows) |-> file.rows[i][j]])]

\* lines 35-39
load_csv(file) == coerce_numeric_columns(read_csv(file))

(***************************************************************************)
(* The SQLite file and DataFrame.to_sql (line 46)                          *)
(***************************************************************************)
TableNames == {"plays", "other"}

NULL == [k |-> "null", s |-> <<>>, n |-> 0, d |-> 0]

NoTable == [present |-> FALSE, schema |-> <<>>, rows |-> <<>>]

Table(schema, rows) == [present |-> TRUE, schema |-> schema, rows |-> rows]

NoDb == [exists |-> FALSE, tables |-> [t \in TableNames |-> NoTable]]

\* the declared type to_sql gives a column of the frame
sql_type_all_text(dtype) == "TEXT"

sql_type(dtype) ==
    CASE dtype \in {"int64", "Int64"}     -> "INTEGER"
      [] dtype \in {"float64", "Float64"} -> "REAL"
      [] dtype \in {"bool", "boolean"}    -> "INTEGER"
      [] OTHER                            -> "TEXT"

\* the value sqlite3 stores for a cell
sql_value(c) ==
    CASE c.k = "na"   -> NULL
      [] c.k = "bool" -> Norm(c.n, 0)
      [] OTHER        -> c

sql_schema(frame) ==
    [j \in 1..Len(frame) |-> [name |-> frame[j].name, type |-> sql_type(frame[j].dtype)]]

sql_rows(frame) ==
    [i \in 1..nrows(frame) |-> [j \in 1..Len(frame) |-> sql_value(frame[j].vals[i])]]

\* to_sql that keeps an existing table and adds the rows to it, whatever the policy
to_sql_keeping(old, frame, if_exists) ==
    IF old.present
    THEN Table(old.schema, old.rows \o sql_rows(frame))
    ELSE Table(sql_schema(frame), sql_rows(frame))

\* df.to_sql(name, conn, if_exists=..., index=False) on the table of that name
to_sql(old, frame, if_exists) ==
    IF old.present /\ if_exists = "append"
    THEN Table(old.schema, old.rows \o sql_rows(frame))
    ELSE Table(sql_schema(frame), sql_rows(frame))

\* line 44-45: makedirs and sqlite3.connect create the file when it is not there
connect(db) == [exists |-> TRUE, tables |-> db.tables]

\* write_sqlite called with if_exists="append"
write_sqlite_append(frame, db, name) ==
    [connect(db) EXCEPT !.tables[name] = to_sql(db.tables[name], frame, "append")]

\* write_sqlite writing the frame's index as a first column (index=True)
write_sqlite_index(frame, db, name) ==
    [connect(db) EXCEPT !.tables[name] =
        Table(<<[name |-> "index", type |-> "INTEGER"]>> \o sql_schema(frame),
              [i \in 1..nrows(frame) |-> <<Norm(i - 1, 0)>> \o sql_rows(frame)[i]])]

\* lines 42-46, with the default if_exists="replace"
write_sqlite(frame, db, name) ==
    [connect(db) EXCEPT !.tables[name] = to_sql(db.tables[name], frame, "replace")]

\* lines 72-81: PRAGMA table_info and SELECT COUNT(*)
NoReport == [done |-> FALSE, schema |-> <<>>, count |-> 0]

read_back(db, name) ==
    [done |-> TRUE, schema |-> db.tables[name].schema, count |-> Len(db.tables[name].rows)]

(***************************************************************************)
(* Inputs                                                                  *)
(***************************************************************************)
CsvTexts == {<<>>, <<"7">>, <<"1", ".", "5">>, <<"x">>, <<"T", "r", "u", "e">>}

\* the fields of the columns after the first
MoreTexts == {<<>>, <<"7">>, <<"x">>}

Headers == {<<"a">>, <<"b", "a">>}

CsvRows(h) == {r \in [1..Len(h) -> CsvTexts] : \A j \in 2..Len(h) : r[j] \in MoreTexts}

OldTable == Table(<<[name |-> "z", type |-> "TEXT"]>>, << <<Str(<<"o", "l", "d">>)>> >>)

InitDbs == {NoDb, [exists |-> TRUE, tables |-> [t \in TableNames |-> OldTable]]}

CoerceTexts ==
    {<<>>, <<"1">>, <<"1", "2">>, <<"-", "3">>, <<"1", ".", "5">>, <<"2", ".", "0">>,
     <<"1", "e", "2">>, <<"5", "e", "-", "1">>, <<".", "5">>, <<"x">>, <<"1", "x">>,
     <<".">>, <<"-">>}

CoerceCells == {NA} \cup {Str(t) : t \in CoerceTexts}

(***************************************************************************)
(* main (lines 49-84), one action per phase                                *)
(***************************************************************************)
Init ==
    /\ pc = "start"
    /\ \/ csv_file \in {NoCsv, CsvFile(<<>>, <<>>)}
       \/ \E h \in Headers : \E n \in 0..MaxRows : \E rows \in [1..n -> CsvRows(h)] :
              csv_file = CsvFile(h, rows)
    /\ db_file \in InitDbs
    /\ table_name \in TableNames
    /\ src_df = NoFrame
    /\ df = NoFrame
    /\ report = NoReport
    /\ run = 1
    /\ db_at_start = db_file

\* lines 56-57 placed after the database is opened
CheckInputAfterOpen ==
    /\ pc = "start"
    /\ pc' = IF csv_file.exists THEN "checked" ELSE "aborted"
    /\ db_file' = IF csv_file.exists THEN db_file ELSE connect(db_file)
    /\ UNCHANGED <<csv_file, table_name, src_df, df, report, run, db_at_start>>

\* lines 56-57: raise SystemExit when the CSV path does not exist
CheckInput ==
    /\ pc = "start"
    /\ pc' = IF csv_file.exists THEN "checked" ELSE "aborted"
    /\ UNCHANGED <<csv_file, db_file, table_name, src_df, df, report, run, db_at_start>>

\* lines 59-66: load_csv and the dtype summary
Load ==
    /\ pc = "checked"
    /\ csv_file.header # <<>>
    /\ src_df' = read_csv(csv_file)
    /\ df' = load_csv(csv_file)
    /\ pc' = "loaded"
    /\ UNCHANGED <<csv_file, db_file, table_name, report, run, db_at_start>>

\* line 37: read_csv raises on a file with no columns; the exception is not caught
LoadFail ==
    /\ pc = "checked"
    /\ csv_file.header = <<>>
    /\ pc' = "aborted"
    /\ UNCHANGED <<csv_file, db_file, table_name, src_df, df, report, run, db_at_start>>

\* lines 68-69
Write ==
    /\ pc = "loaded"
    /\ db_file' = write_sqlite(df, db_file, table_name)
    /\ pc' = "written"
    /\ UNCHANGED <<csv_file, table_name, src_df, df, report, run, db_at_start>>

\* lines 44-46 raising (directory, open or bulk write): not caught; the
\* destination is untouched, or created, or left without the table
WriteFail ==
    /\ pc = "loaded"
    /\ \E after \in {db_file, connect(db_file),
                     [connect(db_file) EXCEPT !.tables[table_name] = NoTable]} :
           db_file' = after
    /\ pc' = "aborted"
    /\ UNCHANGED <<csv_file, table_name, src_df, df, report, run, db_at_start>>

\* lines 72-81 with a statement that drops the table after reading it
VerifyDropping ==
    /\ pc = "written"
    /\ report' = read_back(db_file, table_name)
    /\ db_file' = [db_file EXCEPT !.tables[table_name] = NoTable]
    /\ pc' = "verified"
    /\ UNCHANGED <<csv_file, table_name, src_df, df, run, db_at_start>>

\* lines 72-81: read the schema and the row count back
Verify ==
    /\ pc = "written"
    /\ report' = read_back(db_file, table_name)
    /\ pc' = "verified"
    /\ UNCHANGED <<csv_file, db_file, table_name, src_df, df, run, db_at_start>>

\* lines 72-81 raising (the file cannot be opened again): not caught
VerifyFail ==
    /\ pc = "written"
    /\ pc' = "aborted"
    /\ UNCHANGED <<csv_file, db_file, table_name, src_df, df, report, run, db_at_start>>

\* return 0 reached without the read-back
DoneUnverified ==
    /\ pc \in {"written", "verified"}
    /\ pc' = "done"
    /\ UNCHANGED <<csv_file, db_file, table_name, src_df, df, report, run, db_at_start>>

\* lines 83-84: return 0
Done ==
    /\ pc = "verified"
    /\ pc' = "done"
    /\ UNCHANGED <<csv_file, db_file, table_name, src_df, df, report, run, db_at_start>>

\* lines 87-88: the tool is invoked again with the same arguments
Rerun ==
    /\ pc = "done"
    /\ run < MaxRuns
    /\ run' = run + 1
    /\ db_at_start' = db_file
    /\ pc' = "start"
    /\ src_df' = NoFrame
    /\ df' = NoFrame
    /\ report' = NoReport
    /\ UNCHANGED <<csv_file, db_file, table_name>>

Next ==
    \/ CheckInput
    \/ Load
    \/ LoadFail
    \/ Write
    \/ WriteFail
    \/ Verify
    \/ VerifyFail
    \/ Done
    \/ Rerun

Spec == Init /\ [][Next]_vars

(***************************************************************************)
(* coerce_numeric_columns called on a frame of its own                     *)
(***************************************************************************)
InitCoerce ==
    /\ pc = "call"
    /\ \E n \in 0..MaxCells : \E vals \in [1..n -> CoerceCells] :
          \/ src_df = <<Column("a", "object", vals)>>
          \/ src_df = <<Column("a", "object", vals),
                        Column("b", "int64", [i \in 1..n |-> Norm(i, 0)])>>
    /\ df = NoFrame
    /\ csv_file = NoCsv
    /\ db_file = NoDb
    /\ table_name = "plays"
    /\ report = NoReport
    /\ run = 1
    /\ db_at_start = NoDb

CoerceCall ==
    /\ pc = "call"
    /\ df' = coerce_numeric_columns(src_df)
    /\ pc' = "ret"
    /\ UNCHANGED <<csv_file, db_file, table_name, src_df, report, run, db_at_start>>

NextCoerce == CoerceCall

SpecCoerce == InitCoerce /\ [][NextCoerce]_vars

(***************************************************************************)
(* Properties                                                              *)
(***************************************************************************)
MissingOrEmpty(c) == c.k = "na" \/ (c.k = "str" /\ c.s = <<>>)

Parses(c) == c.k = "str" /\ ParseNumber(c.s).ok

TextColumns == {j \in 1..Len(src_df) : src_df[j].dtype = "object"}

Content(col) == {i \in 1..Len(col.vals) : ~MissingOrEmpty(col.vals[i])}

AllParse(col) == \A i \in Content(col) : Parses(col.vals[i])

SomeFails(col) == \E i \in Content(col) : ~Parses(col.vals[i])

TypeRule(j) ==
    /\ AllParse(src_df[j]) => is_numeric_dtype(df[j].dtype)
    /\ SomeFails(src_df[j]) => is_text_dtype(df[j].dtype)

\* C1 as stated: for every text column passed to coerce_numeric_columns, if
\* every non-missing, non-empty cell parses as a number the output dtype is
\* numeric, and if at least one does not parse the output dtype is text;
\* columns with no non-missing, non-empty cell included.
C1_AllTextColumns ==
    pc = "ret" => \A j \in TextColumns : TypeRule(j)

\* C1 amended: the same rule for every text column that holds at least one
\* non-missing, non-empty cell.
C1_ColumnsWithContent ==
    pc = "ret" => \A j \in TextColumns : Content(src_df[j]) # {} => TypeRule(j)

C1_Witness ==
    /\ pc = "ret"
    /\ \E j \in TextColumns :
          /\ Content(src_df[j]) # {}
          /\ Content(src_df[j]) # 1..Len(src_df[j].vals)
          /\ AllParse(src_df[j])
          /\ is_numeric_dtype(df[j].dtype)

\* C2: a text column with at least one non-missing, non-empty cell that does
\* not parse comes out of the pass with every cell as it was, at its place.
C2_RejectedColumnUntouched ==
    pc = "ret" =>
        /\ Len(df) = Len(src_df)
        /\ \A j \in TextColumns : SomeFails(src_df[j]) =>
              /\ df[j].name = src_df[j].name
              /\ df[j].vals = src_df[j].vals

C2_Witness ==
    /\ pc = "ret"
    /\ \E j \in TextColumns :
          /\ SomeFails(src_df[j])
          /\ \E i \in Content(src_df[j]) : Parses(src_df[j].vals[i])
          /\ df[j].vals = src_df[j].vals

\* C3: missing and empty cells do not block adoption (a column whose other
\* cells all parse, and that has one, comes out numeric), and in an adopted
\* column each cell that was missing or empty is missing at the same index
\* while each other cell holds the number its text parses to.
C3_MissingCellsStayMissing ==
    pc = "ret" => \A j \in TextColumns :
        /\ (Content(src_df[j]) # {} /\ AllParse(src_df[j])) => is_numeric_dtype(df[j].dtype)
        /\ is_numeric_dtype(df[j].dtype) =>
              /\ Len(df[j].vals) = Len(src_df[j].vals)
              /\ \A i \in 1..Len(src_df[j].vals) :
                    df[j].vals[i] = IF MissingOrEmpty(src_df[j].vals[i]) THEN NA
                                    ELSE ParseNumber(src_df[j].vals[i].s).val

C3_Witness ==
    /\ pc = "ret"
    /\ \E j \in TextColumns :
          /\ \E i \in 1..Len(src_df[j].vals) : src_df[j].vals[i] = NA
          /\ \E i \in 1..Len(src_df[j].vals) : src_df[j].vals[i] = Str(<<>>) /\ df[j].vals[i] = NA
          /\ Content(src_df[j]) # {}
          /\ is_numeric_dtype(df[j].dtype)

WrittenTable == db_file.tables[table_name]

\* C4: after a successful run the row count read back is the frame's row
\* count and the column names read back are the frame's, in the order of the
\* file's header.
C4_RoundTrip ==
    pc \in {"verified", "done"} =>
        /\ report.count = nrows(df)
        /\ [j \in 1..Len(report.schema) |-> report.schema[j].name] = columns(df)
        /\ columns(df) = csv_file.header

C4_Witness ==
    /\ pc = "done"
    /\ report.count >= 1
    /\ Len(report.schema) > 1

\* C5: a second run on the same input, destination and table name leaves the
\* table as the first run left it.
C5_Idempotent ==
    (run > 1 /\ pc = "done") => WrittenTable = db_at_start.tables[table_name]

C5_Witness ==
    /\ run > 1
    /\ pc = "done"
    /\ Len(WrittenTable.rows) >= 1

\* C6: with no input file the run aborts at the check: nothing is loaded,
\* nothing is read back and the destination is as it was, created or not.
C6_MissingInputNoWrite ==
    ~csv_file.exists =>
        /\ pc \in {"start", "aborted"}
        /\ src_df = NoFrame /\ df = NoFrame /\ report = NoReport
        /\ db_file = db_at_start

C6_Witness ==
    /\ ~csv_file.exists
    /\ pc = "aborted"
    /\ ~db_file.exists

\* C7: after write_sqlite the named table holds the columns of the frame and
\* its rows, in row order, and nothing else, whatever the table held before.
C7_ReplaceExact ==
    pc = "written" =>
        /\ WrittenTable.present
        /\ [j \in 1..Len(WrittenTable.schema) |-> WrittenTable.schema[j].name] = columns(df)
        /\ Len(WrittenTable.rows) = nrows(df)
        /\ \A i \in 1..Len(WrittenTable.rows) :
              /\ Len(WrittenTable.rows[i]) = Len(df)
              /\ \A j \in 1..Len(df) : WrittenTable.rows[i][j] = sql_value(df[j].vals[i])

C7_Witness ==
    /\ pc = "written"
    /\ db_at_start.tables[table_name] = OldTable
    /\ nrows(df) >= 1

SemanticType(dtype) ==
    CASE dtype \in {"int64", "Int64"}     -> "integer"
      [] dtype \in {"float64", "Float64"} -> "floating"
      [] dtype \in {"bool", "boolean"}    -> "boolean"
      [] dtype = "string"                 -> "text"
      [] OTHER                            -> "unset"

MissingWrittenNull ==
    \A j \in 1..Len(df) : \A i \in 1..nrows(df) :
        df[j].vals[i] = NA => WrittenTable.rows[i][j] = NULL

\* C8 as stated: integer columns are declared INTEGER, floating-point
\* columns REAL, and text, boolean and unset columns TEXT; missing cells are
\* written as NULL.
C8_BooleanAsText ==
    pc = "written" =>
        /\ \A j \in 1..Len(df) :
              WrittenTable.schema[j].type =
                  CASE SemanticType(df[j].dtype) = "integer"  -> "INTEGER"
                    [] SemanticType(df[j].dtype) = "floating" -> "REAL"
                    [] OTHER                                  -> "TEXT"
        /\ MissingWrittenNull

\* C8 amended: integer and boolean columns are declared INTEGER,
\* floating-point columns REAL, text columns and columns with no refined
\* type (object, as in a file with no data rows) TEXT; missing cells are
\* written as NULL.
C8_BooleanAsInteger ==
    pc = "written" =>
        /\ \A j \in 1..Len(df) :
              WrittenTable.schema[j].type =
                  CASE SemanticType(df[j].dtype) \in {"integer", "boolean"} -> "INTEGER"
                    [] SemanticType(df[j].dtype) = "floating"               -> "REAL"
                    [] OTHER                                                -> "TEXT"
        /\ MissingWrittenNull

C8_Witness ==
    /\ pc = "written"
    /\ \E j \in 1..Len(df) : df[j].dtype = "boolean"
    /\ \E j \in 1..Len(df) : WrittenTable.schema[j].type = "INTEGER" /\ df[j].dtype = "Int64"
    /\ \E j \in 1..Len(df) : \E i \in 1..nrows(df) :
          df[j].vals[i] = NA /\ WrittenTable.rows[i][j] = NULL

RunOrder ==
    {<<"start", "checked">>, <<"start", "aborted">>,
     <<"checked", "loaded">>, <<"checked", "aborted">>,
     <<"loaded", "written">>, <<"loaded", "aborted">>,
     <<"written", "verified">>, <<"written", "aborted">>,
     <<"verified", "done">>}

\* C9: within a run every step moves to the next phase or aborts, nothing
\* follows an abort, and the normal exit is reached only with the table
\* written and the read-back made.
C9_PhaseOrder ==
    [][/\ run' = run => <<pc, pc'>> \in RunOrder
       /\ run' # run => (pc = "done" /\ pc' = "start")
       /\ pc' = "done" => (report'.done /\ db_file'.tables[table_name].present)]_vars

C9_Witness ==
    /\ pc = "done"
    /\ report.done
    /\ WrittenTable.present

\* C10: no step taken from the state right after the write (the read-back,
\* or its failure) changes the destination.
C10_VerifyReadsOnly ==
    [][pc = "written" => db_file' = db_file]_vars

C10_Witness ==
    /\ pc = "verified"
    /\ report.count >= 1
    /\ WrittenTable = Table(sql_schema(df), sql_rows(df))

====
